---- MODULE Spec2Model ----
(***************************************************************************)
(* digital_map: a pattern compiler (tokenizer.rs) feeding a merging trie   *)
(* over digit transitions (node.rs), driven by Map::add / Map::get         *)
(* (map.rs).  Strings are sequences of one-character strings.              *)
(***************************************************************************)
EXTENDS Integers, Sequences, FiniteSets, TLC

VARIABLES nodes, adds, used, call

vars == <<nodes, adds, used, call>>

-----------------------------------------------------------------------------
(* Bounds of the model                                                     *)

MaxChars == 7
MaxInput == 8
MaxTextLen == 8
MaxTextBad == 3
MaxAdds == 2
MaxPatLen == 5
MaxBadLen == 1
MaxQueryLen == 1
MaxStrLen == 5
MaxPlainTerms == 2
MaxAffix == 1
MaxReps == 3

-----------------------------------------------------------------------------
(* Characters                                                              *)

\* char::to_digit(10); -1 stands for None
ToDigit(c) ==
    CASE c = "0" -> 0 [] c = "1" -> 1 [] c = "2" -> 2 [] c = "3" -> 3
      [] c = "4" -> 4 [] c = "5" -> 5 [] c = "6" -> 6 [] c = "7" -> 7
      [] c = "8" -> 8 [] c = "9" -> 9 [] OTHER -> -1

Min(S) == CHOOSE x \in S : \A y \in S : x <= y

-----------------------------------------------------------------------------
(* error.rs                                                                *)

NoError == [tag |-> "None", ch |-> ""]
TokInvalidDigit(c) == [tag |-> "InvalidDigit", ch |-> c]
MissingClosingBracket == [tag |-> "MissingClosingBracket", ch |-> ""]
UnexpectedChar(c) == [tag |-> "UnexpectedChar", ch |-> c]
UnexpectedEmptyRange == [tag |-> "UnexpectedEmptyRange", ch |-> ""]

\* Results of Map::add and Map::get, in one record shape:
\* val is the Option<&T> of an Ok get, ch the char of MapError::InvalidDigit,
\* err the TokenizerError wrapped by MapError::TokenizeError.
NoneVal == "None"
OkUnit == [tag |-> "Ok", val |-> NoneVal, ch |-> "", err |-> NoError]
OkOption(v) == [tag |-> "Ok", val |-> v, ch |-> "", err |-> NoError]
PathAlreadyExists == [tag |-> "PathAlreadyExists", val |-> NoneVal, ch |-> "", err |-> NoError]
MapInvalidDigit(c) == [tag |-> "InvalidDigit", val |-> NoneVal, ch |-> c, err |-> NoError]
TokenizeError(e) == [tag |-> "TokenizeError", val |-> NoneVal, ch |-> "", err |-> e]

-----------------------------------------------------------------------------
(* tokenizer.rs                                                            *)

AsSingle(digit) == [digit |-> digit, kind |-> "Single"]
AsMaybeOneOrMore(digit) == [digit |-> digit, kind |-> "AtLeastOne"]
ChangeKind(t, kind) == [t EXCEPT !.kind = kind]

\* Tokens::default
TokensDefault == << <<>> >>

\* append_token putting the token in front of each sequence
AppendTokenFront(result, t) == [i \in 1..Len(result) |-> <<t>> \o result[i]]

\* Tokens::append_token
AppendToken(result, t) == [i \in 1..Len(result) |-> Append(result[i], t)]

\* the tokens of vt without the repeated ones
RECURSIVE DistinctTokens(_)
DistinctTokens(vt) ==
    IF vt = <<>> THEN <<>>
    ELSE LET r == DistinctTokens(SubSeq(vt, 1, Len(vt) - 1))
         IN  IF \E i \in 1..Len(r) : r[i] = vt[Len(vt)] THEN r
             ELSE Append(r, vt[Len(vt)])

\* extend_tokens taking each digit of the bracket once
ExtendTokensDistinct(result, vt) ==
    [k \in 1..(Len(result) * Len(DistinctTokens(vt))) |->
        Append(result[((k - 1) \div Len(DistinctTokens(vt))) + 1],
               DistinctTokens(vt)[((k - 1) % Len(DistinctTokens(vt))) + 1])]

\* extend_tokens that also keeps the sequences it extends
ExtendTokensKeepOld(result, vt) ==
    result \o
    [k \in 1..(Len(result) * Len(vt)) |->
        Append(result[((k - 1) \div Len(vt)) + 1], vt[((k - 1) % Len(vt)) + 1])]

\* extend_tokens taking only the first alternative of the bracket
ExtendTokensFirstOnly(result, vt) ==
    [k \in 1..Len(result) |-> Append(result[k], vt[1])]

\* Tokens::extend_tokens: for each current sequence, for each e of vt
ExtendTokens(result, vt) ==
    [k \in 1..(Len(result) * Len(vt)) |->
        Append(result[((k - 1) \div Len(vt)) + 1], vt[((k - 1) % Len(vt)) + 1])]

\* extend_tokens_for_plus giving, per sequence, the Single sequences of
\* all tokens and then the AtLeastOne sequences
ExtendTokensForPlusGrouped(result, tokens) ==
    [k \in 1..(Len(result) * Len(tokens) * 2) |->
        LET n == Len(tokens)
            current_sequence == result[((k - 1) \div (2 * n)) + 1]
            r == (k - 1) % (2 * n)
            token == tokens[(r % n) + 1]
        IN  IF r < n
            THEN Append(current_sequence, AsSingle(token.digit))
            ELSE Append(current_sequence, AsMaybeOneOrMore(token.digit))]

\* extend_tokens_for_plus that also keeps the unextended sequences
ExtendTokensForPlusWithZero(result, tokens) ==
    result \o
    [k \in 1..(Len(result) * Len(tokens) * 2) |->
        LET pair == (k - 1) \div 2
            current_sequence == result[(pair \div Len(tokens)) + 1]
            token == tokens[(pair % Len(tokens)) + 1]
        IN  IF (k - 1) % 2 = 0
            THEN Append(current_sequence, AsSingle(token.digit))
            ELSE Append(current_sequence, AsMaybeOneOrMore(token.digit))]

\* Tokens::extend_tokens_for_plus: per sequence and token, the Single
\* sequence and then the AtLeastOne sequence
ExtendTokensForPlus(result, tokens) ==
    [k \in 1..(Len(result) * Len(tokens) * 2) |->
        LET pair == (k - 1) \div 2
            current_sequence == result[(pair \div Len(tokens)) + 1]
            token == tokens[(pair % Len(tokens)) + 1]
        IN  IF (k - 1) % 2 = 0
            THEN Append(current_sequence, AsSingle(token.digit))
            ELSE Append(current_sequence, AsMaybeOneOrMore(token.digit))]

\* the '*' branch with the old sequences after the extended ones
ExtendTokensForStarZeroLast(result, v) ==
    ExtendTokens(result, [k \in 1..Len(v) |-> ChangeKind(v[k], "AtLeastOne")])
    \o result

\* the '*' branch without the old sequences
ExtendTokensForStarNoZero(result, v) ==
    ExtendTokens(result, [k \in 1..Len(v) |-> ChangeKind(v[k], "AtLeastOne")])

\* the '*' branch of from_str: the old sequences, then the extended ones
ExtendTokensForStar(result, v) ==
    result \o ExtendTokens(result, [k \in 1..Len(v) |-> ChangeKind(v[k], "AtLeastOne")])

RECURSIVE ReadBracket(_, _, _)

\* the inner loop stopping at a non-digit as it stops at ']'
ReadBracketStops(s, i, v) ==
    IF i > Len(s) \/ ToDigit(s[i]) < 0
    THEN [err |-> NoError, v |-> v, pos |-> i]
    ELSE ReadBracket(s, i + 1, Append(v, AsSingle(ToDigit(s[i]))))

\* the inner while loop of from_str: digits up to ']' or the end of input
ReadBracket(s, i, v) ==
    IF i > Len(s) \/ s[i] = "]"
    THEN [err |-> NoError, v |-> v, pos |-> i]
    ELSE IF ToDigit(s[i]) < 0
         THEN [err |-> TokInvalidDigit(s[i]), v |-> v, pos |-> i]
         ELSE ReadBracket(s, i + 1, Append(v, AsSingle(ToDigit(s[i]))))

RECURSIVE FromStrLoop(_, _, _)

\* the outer loop checking the bracket for emptiness before its ']'
FromStrLoopEmptyFirst(s, i, result) ==
    IF i > Len(s)
    THEN [ok |-> TRUE, tokens |-> result, err |-> NoError]
    ELSE LET c == s[i] IN
         IF ToDigit(c) >= 0
         THEN FromStrLoop(s, i + 1, AppendToken(result, AsSingle(ToDigit(c))))
         ELSE IF c = "["
         THEN LET rb == ReadBracket(s, i + 1, <<>>)
                  j == rb.pos + 1
              IN  IF rb.err # NoError
                  THEN [ok |-> FALSE, tokens |-> <<>>, err |-> rb.err]
                  ELSE IF rb.v = <<>>
                  THEN [ok |-> FALSE, tokens |-> <<>>, err |-> UnexpectedEmptyRange]
                  ELSE IF rb.pos > Len(s)
                  THEN [ok |-> FALSE, tokens |-> <<>>, err |-> MissingClosingBracket]
                  ELSE IF j <= Len(s) /\ s[j] = "*"
                  THEN FromStrLoop(s, j + 1, ExtendTokensForStar(result, rb.v))
                  ELSE IF j <= Len(s) /\ s[j] = "+"
                  THEN FromStrLoop(s, j + 1, ExtendTokensForPlus(result, rb.v))
                  ELSE FromStrLoop(s, j, ExtendTokens(result, rb.v))
         ELSE [ok |-> FALSE, tokens |-> <<>>, err |-> UnexpectedChar(c)]

\* the outer loop without the check of the bracket for emptiness
FromStrLoopNoEmptyCheck(s, i, result) ==
    IF i > Len(s)
    THEN [ok |-> TRUE, tokens |-> result, err |-> NoError]
    ELSE LET c == s[i] IN
         IF ToDigit(c) >= 0
         THEN FromStrLoop(s, i + 1, AppendToken(result, AsSingle(ToDigit(c))))
         ELSE IF c = "["
         THEN LET rb == ReadBracket(s, i + 1, <<>>)
                  j == rb.pos + 1
              IN  IF rb.err # NoError
                  THEN [ok |-> FALSE, tokens |-> <<>>, err |-> rb.err]
                  ELSE IF rb.pos > Len(s)
                  THEN [ok |-> FALSE, tokens |-> <<>>, err |-> MissingClosingBracket]
                  ELSE IF j <= Len(s) /\ s[j] = "*"
                  THEN FromStrLoop(s, j + 1, ExtendTokensForStar(result, rb.v))
                  ELSE IF j <= Len(s) /\ s[j] = "+"
                  THEN FromStrLoop(s, j + 1, ExtendTokensForPlus(result, rb.v))
                  ELSE FromStrLoop(s, j, ExtendTokens(result, rb.v))
         ELSE [ok |-> FALSE, tokens |-> <<>>, err |-> UnexpectedChar(c)]

\* the outer loop reporting an illegal character outside brackets as
\* InvalidDigit
FromStrLoopInvalidDigit(s, i, result) ==
    IF i > Len(s)
    THEN [ok |-> TRUE, tokens |-> result, err |-> NoError]
    ELSE LET c == s[i] IN
         IF ToDigit(c) >= 0
         THEN FromStrLoop(s, i + 1, AppendToken(result, AsSingle(ToDigit(c))))
         ELSE IF c = "["
         THEN LET rb == ReadBracket(s, i + 1, <<>>)
                  j == rb.pos + 1
              IN  IF rb.err # NoError
                  THEN [ok |-> FALSE, tokens |-> <<>>, err |-> rb.err]
                  ELSE IF rb.pos > Len(s)
                  THEN [ok |-> FALSE, tokens |-> <<>>, err |-> MissingClosingBracket]
                  ELSE IF rb.v = <<>>
                  THEN [ok |-> FALSE, tokens |-> <<>>, err |-> UnexpectedEmptyRange]
                  ELSE IF j <= Len(s) /\ s[j] = "*"
                  THEN FromStrLoop(s, j + 1, ExtendTokensForStar(result, rb.v))
                  ELSE IF j <= Len(s) /\ s[j] = "+"
                  THEN FromStrLoop(s, j + 1, ExtendTokensForPlus(result, rb.v))
                  ELSE FromStrLoop(s, j, ExtendTokens(result, rb.v))
         ELSE [ok |-> FALSE, tokens |-> <<>>, err |-> TokInvalidDigit(c)]

\* the outer while loop of from_str, from position i
FromStrLoop(s, i, result) ==
    IF i > Len(s)
    THEN [ok |-> TRUE, tokens |-> result, err |-> NoError]
    ELSE LET c == s[i] IN
         IF ToDigit(c) >= 0
         THEN FromStrLoop(s, i + 1, AppendToken(result, AsSingle(ToDigit(c))))
         ELSE IF c = "["
         THEN LET rb == ReadBracket(s, i + 1, <<>>)
                  j == rb.pos + 1
              IN  IF rb.err # NoError
                  THEN [ok |-> FALSE, tokens |-> <<>>, err |-> rb.err]
                  ELSE IF rb.pos > Len(s)
                  THEN [ok |-> FALSE, tokens |-> <<>>, err |-> MissingClosingBracket]
                  ELSE IF rb.v = <<>>
                  THEN [ok |-> FALSE, tokens |-> <<>>, err |-> UnexpectedEmptyRange]
                  ELSE IF j <= Len(s) /\ s[j] = "*"
                  THEN FromStrLoop(s, j + 1, ExtendTokensForStar(result, rb.v))
                  ELSE IF j <= Len(s) /\ s[j] = "+"
                  THEN FromStrLoop(s, j + 1, ExtendTokensForPlus(result, rb.v))
                  ELSE FromStrLoop(s, j, ExtendTokens(result, rb.v))
         ELSE [ok |-> FALSE, tokens |-> <<>>, err |-> UnexpectedChar(c)]

\* <Tokens as FromStr>::from_str
FromStr(s) == FromStrLoop(s, 1, TokensDefault)

-----------------------------------------------------------------------------
(* node.rs: the tree is an arena, nodes[1] is the root and children hold   *)
(* the arena ids of the owned child nodes in Vec order                     *)

RootType == [tag |-> "Root", digit |-> -1]
Exact(d) == [tag |-> "Exact", digit |-> d]
Repeatable(d) == [tag |-> "Repeatable", digit |-> d]

\* Node::root
NodeRoot == [children |-> <<>>, value |-> NoneVal, node_type |-> RootType]

\* Node::new
NodeNew(node_type) == [children |-> <<>>, value |-> NoneVal, node_type |-> node_type]

\* impl From<&Token> for NodeType
NodeTypeFrom(token) ==
    IF token.kind = "Single" THEN Exact(token.digit) ELSE Repeatable(token.digit)

RECURSIVE CanHandle(_, _, _)
RECURSIVE CanHandleIndex(_, _, _)

\* Node::can_handle_index; 0 stands for None, indices count from 1
CanHandleIndex(ns, id, digit) ==
    LET ch == ns[id].children
        hits == {i \in 1..Len(ch) : CanHandle(ns, ch[i], digit)}
    IN  IF hits = {} THEN 0 ELSE Min(hits)

\* can_handle looking at the own types of the direct children only
CanHandleOneLevel(ns, id, digit) ==
    LET t == ns[id].node_type IN
    CASE t.tag = "Root" -> FALSE
      [] t.tag = "Exact" -> t.digit = digit
      [] t.tag = "Repeatable" ->
            \/ t.digit = digit
            \/ \E i \in 1..Len(ns[id].children) :
                  ns[ns[id].children[i]].node_type.digit = digit

\* Node::can_handle
CanHandle(ns, id, digit) ==
    LET t == ns[id].node_type IN
    CASE t.tag = "Root" -> FALSE
      [] t.tag = "Exact" -> t.digit = digit
      [] t.tag = "Repeatable" ->
            t.digit = digit \/ CanHandleIndex(ns, id, digit) # 0

\* merge taking the other type whatever the node's own type is
MergeAlways(node, other_node_type) ==
    [node EXCEPT !.node_type = other_node_type]

\* Node::merge
Merge(node, other_node_type) ==
    IF node.node_type.tag = "Exact" /\ other_node_type.tag = "Repeatable"
    THEN [node EXCEPT !.node_type = other_node_type]
    ELSE node

\* add_if_missing creating a child without looking for one that handles
\* the digit
AddIfMissingAlways(ns, id, digit, node_type) ==
    LET c == Len(ns) + 1
    IN  [nodes |-> Append([ns EXCEPT ![id].children = Append(@, c)],
                          NodeNew(node_type)),
         node |-> c]

\* add_if_missing putting a new child before the existing ones
AddIfMissingFront(ns, id, digit, node_type) ==
    LET index == CanHandleIndex(ns, id, digit) IN
    IF index # 0
    THEN LET c == ns[id].children[index]
         IN  [nodes |-> [ns EXCEPT ![c] = Merge(ns[c], node_type)], node |-> c]
    ELSE LET c == Len(ns) + 1
         IN  [nodes |-> Append([ns EXCEPT ![id].children = <<c>> \o @],
                               NodeNew(node_type)),
              node |-> c]

\* Node::add_if_missing
AddIfMissing(ns, id, digit, node_type) ==
    LET index == CanHandleIndex(ns, id, digit) IN
    IF index # 0
    THEN LET c == ns[id].children[index]
         IN  [nodes |-> [ns EXCEPT ![c] = Merge(ns[c], node_type)], node |-> c]
    ELSE LET c == Len(ns) + 1
         IN  [nodes |-> Append([ns EXCEPT ![id].children = Append(@, c)],
                               NodeNew(node_type)),
              node |-> c]

\* add_with without the self-loop of a Repeatable node
AddWithNoLoop(ns, id, digit, node_type) ==
    AddIfMissing(ns, id, digit, node_type)

\* Node::add_with
AddWith(ns, id, digit, node_type) ==
    IF ns[id].node_type.tag = "Repeatable" /\ ns[id].node_type.digit = digit
    THEN [nodes |-> ns, node |-> id]
    ELSE AddIfMissing(ns, id, digit, node_type)

\* get without the self-loop of a Repeatable node
NodeGetNoLoop(ns, id, digit) ==
    LET index == CanHandleIndex(ns, id, digit) IN
    IF index # 0 THEN ns[id].children[index] ELSE 0

\* get whose Repeatable self-loop takes any digit
NodeGetLoopAny(ns, id, digit) ==
    LET index == CanHandleIndex(ns, id, digit) IN
    IF index # 0
    THEN ns[id].children[index]
    ELSE IF ns[id].node_type.tag = "Repeatable" THEN id ELSE 0

\* Node::get; 0 stands for None
NodeGet(ns, id, digit) ==
    LET index == CanHandleIndex(ns, id, digit) IN
    IF index # 0
    THEN ns[id].children[index]
    ELSE IF ns[id].node_type.tag = "Repeatable" /\ ns[id].node_type.digit = digit
         THEN id
         ELSE 0

\* Node::set_value
SetValue(ns, id, value) == [ns EXCEPT ![id].value = value]

\* Node::get_value
GetValue(ns, id) == ns[id].value

-----------------------------------------------------------------------------
(* map.rs                                                                  *)

\* Map::default
MapDefault == <<NodeRoot>>

\* the inner loop of Map::add: the insertion walk of one variant
RECURSIVE InsertTokens(_, _, _, _)
InsertTokens(ns, current, tokens, i) ==
    IF i > Len(tokens)
    THEN [nodes |-> ns, node |-> current]
    ELSE LET r == AddWith(ns, current, tokens[i].digit, NodeTypeFrom(tokens[i]))
         IN  InsertTokens(r.nodes, r.node, tokens, i + 1)

RECURSIVE AddLoop(_, _, _, _, _)

\* the outer loop writing the value on the node it reports the conflict on
AddLoopConflictWrites(ns, tokens_list, k, value, trace) ==
    IF k > Len(tokens_list)
    THEN [nodes |-> ns, result |-> OkUnit, trace |-> trace]
    ELSE LET w == InsertTokens(ns, 1, tokens_list[k], 1)
             current_value == GetValue(w.nodes, w.node)
             step == [node |-> w.node, before |-> current_value]
         IN  IF current_value # NoneVal /\ current_value # value
             THEN [nodes |-> SetValue(w.nodes, w.node, value),
                   result |-> PathAlreadyExists,
                   trace |-> Append(trace, step)]
             ELSE AddLoop(SetValue(w.nodes, w.node, value), tokens_list, k + 1,
                          value, Append(trace, step))

\* the outer loop setting the value without the check of the stored one
AddLoopOverwrite(ns, tokens_list, k, value, trace) ==
    IF k > Len(tokens_list)
    THEN [nodes |-> ns, result |-> OkUnit, trace |-> trace]
    ELSE LET w == InsertTokens(ns, 1, tokens_list[k], 1)
             step == [node |-> w.node, before |-> GetValue(w.nodes, w.node)]
         IN  AddLoop(SetValue(w.nodes, w.node, value), tokens_list, k + 1,
                     value, Append(trace, step))

\* the outer loop of Map::add from variant k on; trace keeps, per variant
\* walked, its terminal node and that node's value before the check
AddLoop(ns, tokens_list, k, value, trace) ==
    IF k > Len(tokens_list)
    THEN [nodes |-> ns, result |-> OkUnit, trace |-> trace]
    ELSE LET w == InsertTokens(ns, 1, tokens_list[k], 1)
             current_value == GetValue(w.nodes, w.node)
             step == [node |-> w.node, before |-> current_value]
         IN  IF current_value # NoneVal /\ current_value # value
             THEN [nodes |-> w.nodes, result |-> PathAlreadyExists,
                   trace |-> Append(trace, step)]
             ELSE AddLoop(SetValue(w.nodes, w.node, value), tokens_list, k + 1,
                          value, Append(trace, step))

\* add restoring the tree it started from when a variant is rejected
MapAddAtomic(ns, input, value) ==
    LET tokens_list == FromStr(input) IN
    IF ~tokens_list.ok
    THEN [nodes |-> ns, result |-> TokenizeError(tokens_list.err), trace |-> <<>>]
    ELSE LET r == AddLoop(ns, tokens_list.tokens, 1, value, <<>>)
         IN  IF r.result = PathAlreadyExists THEN [r EXCEPT !.nodes = ns] ELSE r

\* add turning the compiler's InvalidDigit into the map's own InvalidDigit
MapAddUnwrapped(ns, input, value) ==
    LET tokens_list == FromStr(input) IN
    IF ~tokens_list.ok
    THEN [nodes |-> ns,
          result |-> IF tokens_list.err.tag = "InvalidDigit"
                     THEN MapInvalidDigit(tokens_list.err.ch)
                     ELSE TokenizeError(tokens_list.err),
          trace |-> <<>>]
    ELSE AddLoop(ns, tokens_list.tokens, 1, value, <<>>)

\* add storing the value on the root when the pattern does not compile
MapAddErrorOnRoot(ns, input, value) ==
    LET tokens_list == FromStr(input) IN
    IF ~tokens_list.ok
    THEN [nodes |-> SetValue(ns, 1, value),
          result |-> TokenizeError(tokens_list.err), trace |-> <<>>]
    ELSE AddLoop(ns, tokens_list.tokens, 1, value, <<>>)

\* Map::add
MapAdd(ns, input, value) ==
    LET tokens_list == FromStr(input) IN
    IF ~tokens_list.ok
    THEN [nodes |-> ns, result |-> TokenizeError(tokens_list.err), trace |-> <<>>]
    ELSE AddLoop(ns, tokens_list.tokens, 1, value, <<>>)

RECURSIVE GetLoop(_, _, _, _)

\* the loop reporting a failed transition as an error
GetLoopMissIsError(ns, current, input, i) ==
    IF i > Len(input)
    THEN OkOption(GetValue(ns, current))
    ELSE IF ToDigit(input[i]) < 0
         THEN MapInvalidDigit(input[i])
         ELSE LET node == NodeGet(ns, current, ToDigit(input[i]))
              IN  IF node = 0 THEN MapInvalidDigit(input[i])
                  ELSE GetLoop(ns, node, input, i + 1)

\* the loop rejecting a non-digit anywhere ahead before it moves on
GetLoopEager(ns, current, input, i) ==
    LET bad == {k \in i..Len(input) : ToDigit(input[k]) < 0} IN
    IF i > Len(input)
    THEN OkOption(GetValue(ns, current))
    ELSE IF bad # {}
         THEN MapInvalidDigit(input[Min(bad)])
         ELSE LET node == NodeGet(ns, current, ToDigit(input[i]))
              IN  IF node = 0 THEN OkOption(NoneVal)
                  ELSE GetLoop(ns, node, input, i + 1)

\* the loop of Map::get from character i on
GetLoop(ns, current, input, i) ==
    IF i > Len(input)
    THEN OkOption(GetValue(ns, current))
    ELSE IF ToDigit(input[i]) < 0
         THEN MapInvalidDigit(input[i])
         ELSE LET node == NodeGet(ns, current, ToDigit(input[i]))
              IN  IF node = 0 THEN OkOption(NoneVal)
                  ELSE GetLoop(ns, node, input, i + 1)

\* Map::get
MapGet(ns, input) == GetLoop(ns, 1, input, 1)

-----------------------------------------------------------------------------
(* Inputs                                                                  *)

\* all strings over the characters A of length at most n
RECURSIVE StringsUpTo(_, _)
StringsUpTo(A, n) ==
    IF n = 0 THEN {<<>>}
    ELSE LET S == StringsUpTo(A, n - 1)
         IN  S \cup {Append(s, c) : s \in {t \in S : Len(t) = n - 1}, c \in A}

Values == {"a", "b"}

PatternChars == {"1", "2", "[", "]", "*", "+"}

\* the strings of exactly n characters of A
StringsOfLen(A, n) == [1..n -> A]

\* the terms of exactly k characters: a digit, a bracket, a quantified bracket
TermsOfLen(k) ==
    (IF k = 1 THEN {<<d>> : d \in {"1", "2"}} ELSE {})
    \cup (IF k >= 3
          THEN {<<"[">> \o b \o <<"]">> : b \in StringsOfLen({"1", "2"}, k - 2)}
          ELSE {})
    \cup (IF k >= 4
          THEN {<<"[">> \o b \o <<"]", q>> :
                   b \in StringsOfLen({"1", "2"}, k - 3), q \in {"*", "+"}}
          ELSE {})

\* T holds the sets of the sequences of terms of exactly 0, 1, ..
\* characters in all; the sets up to n characters are added to it
RECURSIVE TermSeqsFrom(_, _)
TermSeqsFrom(T, n) ==
    IF Len(T) > n THEN T
    ELSE LET m == Len(T)
         IN  TermSeqsFrom(
                Append(T, UNION {{p \o t : p \in T[m - k + 1], t \in TermsOfLen(k)} :
                                    k \in 1..m}),
                n)

\* the sets for 0..n characters, as a sequence of n + 1 sets
TermSeqsTable(n) == TermSeqsFrom(<<{<<>>}>>, n)

\* the sequences of terms of exactly n characters in all
TermSeqsOfLen(n) == TermSeqsTable(n)[n + 1]

\* the members of the sets of T
AllOf(T) == UNION {T[k] : k \in 1..Len(T)}

\* the patterns of at most n characters that compile
WellFormed(n) == {s \in AllOf(TermSeqsTable(n)) : FromStr(s).ok}

\* the short patterns that do not compile
Malformed == {s \in StringsUpTo(PatternChars \cup {"a"}, MaxBadLen) : ~FromStr(s).ok}

\* the patterns one add can take within the budget of MaxChars
Patterns == WellFormed(MaxChars - 1) \cup Malformed

\* the patterns of at most MaxPatLen characters
PairPatterns == WellFormed(MaxPatLen) \cup Malformed

Queries == StringsUpTo({"1", "2", "a"}, MaxQueryLen)

\* all concatenations of at most n strings of T
RECURSIVE Concats(_, _)
Concats(T, n) ==
    IF n = 0 THEN {<<>>}
    ELSE LET S == Concats(T, n - 1) IN S \cup {s \o t : s \in S, t \in T}

Digits12 == {"1", "2"}
Digits123 == {"1", "2", "3"}

\* bracket bodies of one or two digits
Bodies(D) == {<<a>> : a \in D} \cup {<<a, b>> : a \in D, b \in D}

\* patterns without quantifiers: plain digits and plain brackets
PlainTerms ==
    {<<d>> : d \in Digits12} \cup {<<"[">> \o b \o <<"]">> : b \in Bodies(Digits12)}

PlainPatterns == Concats(PlainTerms, MaxPlainTerms)

\* patterns x[..]*y and x[..]+y for digit strings x and y
QuantPatterns ==
    {x \o <<"[">> \o b \o <<"]", q>> \o y :
        x \in StringsUpTo(Digits123, MaxAffix), y \in StringsUpTo(Digits123, MaxAffix),
        b \in Bodies(Digits123), q \in {"*", "+"}}

FreshPatterns == PlainPatterns \cup QuantPatterns

-----------------------------------------------------------------------------
(* The map as a state machine: nodes is the tree owned by Map::root, adds  *)
(* counts the calls of add, used is the size of the calls counted so far   *)
(* (one for the call and one for each character of its input), call is the *)
(* latest call with what it returned                                       *)

NoCall == [op |-> "none", input |-> <<>>, value |-> NoneVal, result |-> OkUnit,
           trace |-> <<>>]

Init ==
    /\ nodes = MapDefault
    /\ adds = 0
    /\ used = 0
    /\ call = NoCall

Add(p, v) ==
    /\ LET r == MapAdd(nodes, p, v)
       IN  /\ nodes' = r.nodes
           /\ call' = [op |-> "add", input |-> p, value |-> v,
                       result |-> r.result, trace |-> r.trace]
    /\ adds' = adds + 1
    /\ used' = used + Len(p) + 1

Get(q) ==
    /\ call' = [op |-> "get", input |-> q, value |-> NoneVal,
                result |-> MapGet(nodes, q), trace |-> <<>>]
    /\ UNCHANGED <<nodes, adds, used>>

\* the patterns of an add of size at most n, for each n up to MaxChars
PatternsWithin == [n \in 0..MaxChars |-> {s \in Patterns : Len(s) + 1 <= n}]

\* any calls of add whose sizes sum to at most MaxChars, and queries
Next ==
    \/ \E p \in PatternsWithin[MaxChars - used], v \in Values : Add(p, v)
    \/ \E q \in Queries : Get(q)

Spec == Init /\ [][Next]_vars

\* at most MaxAdds calls of add with patterns of at most MaxPatLen
\* characters, and queries
NextPairs ==
    \/ adds < MaxAdds /\ \E p \in PairPatterns, v \in Values : Add(p, v)
    \/ \E q \in Queries : Get(q)

SpecPairs == Init /\ [][NextPairs]_vars

\* one registration on a freshly constructed map, then queries
NextFresh ==
    \/ adds = 0 /\ \E p \in FreshPatterns, v \in Values : Add(p, v)
    \/ \E q \in Queries : Get(q)

SpecFresh == Init /\ [][NextFresh]_vars

\* a call of get whose size is counted in used like the size of an add
Query(q) ==
    /\ call' = [op |-> "get", input |-> q, value |-> NoneVal,
                result |-> MapGet(nodes, q), trace |-> <<>>]
    /\ used' = used + Len(q) + 1
    /\ UNCHANGED <<nodes, adds>>

\* the patterns and the queries one call can take within MaxInput
CallPatterns == WellFormed(MaxInput - 1) \cup Malformed

CallQueries == StringsUpTo({"1", "2", "a"}, MaxInput - 1)

\* the inputs of a call of size at most n, for each n up to MaxInput
CallPatternsWithin ==
    [n \in 0..MaxInput |-> {s \in CallPatterns : Len(s) + 1 <= n}]

CallQueriesWithin ==
    [n \in 0..MaxInput |-> {s \in CallQueries : Len(s) + 1 <= n}]

\* any calls of add and get whose sizes sum to at most MaxInput
NextCalls ==
    \/ \E p \in CallPatternsWithin[MaxInput - used], v \in Values : Add(p, v)
    \/ \E q \in CallQueriesWithin[MaxInput - used] : Query(q)

SpecCalls == Init /\ [][NextCalls]_vars

\* patterns that compile, one of each shape, to put in front of a string
TextPrefixes ==
    {<<>>, <<"2">>, <<"[", "1", "]">>, <<"[", "1", "]", "*">>,
     <<"[", "1", "2", "]", "+">>}

\* the texts given to the compiler: the patterns of at most MaxTextLen
\* characters that compile and every string of at most MaxTextBad
\* characters, alone and behind a pattern that compiles
Texts ==
    WellFormed(MaxTextLen)
    \cup {w \o t : w \in TextPrefixes,
                   t \in StringsUpTo(PatternChars \cup {"a"}, MaxTextBad)}

\* a fresh map and a text not yet used
InitText ==
    /\ nodes = MapDefault
    /\ adds = 0
    /\ used = 0
    /\ call \in {[NoCall EXCEPT !.input = s] : s \in Texts}

\* the compiler alone on the text
Compile ==
    /\ call.op = "none"
    /\ call' = [op |-> "from_str", input |-> call.input, value |-> NoneVal,
                result |-> FromStr(call.input), trace |-> <<>>]
    /\ UNCHANGED <<nodes, adds, used>>

\* the text compiled alone, or given to add on the fresh map
NextText ==
    \/ Compile
    \/ call.op = "none" /\ \E v \in Values : Add(call.input, v)

SpecText == InitText /\ [][NextText]_vars

-----------------------------------------------------------------------------
(* The node API used on its own, as the tests of node.rs use it: a tree    *)
(* grown from Node::root() by add_with on any of its nodes, and can_handle *)
(* asked of any node                                                       *)

\* the nodes of the largest tree, the root included
MaxNodes == 4

NodeDigits == {1, 2, 3}

\* the latest call on node id with digit d, and what it returned
NodeCall(op, id, d, out) ==
    [op |-> op, input |-> <<>>, value |-> NoneVal, result |-> OkUnit,
     trace |-> <<>>, node |-> id, digit |-> d, out |-> out]

NodeAddWith(id, d, node_type) ==
    /\ id <= Len(nodes)
    /\ LET r == AddWith(nodes, id, d, node_type)
       IN  /\ Len(r.nodes) <= MaxNodes
           /\ nodes' = r.nodes
           /\ call' = NodeCall("add_with", id, d, r.node)
    /\ UNCHANGED <<adds, used>>

NodeCanHandle(id, d) ==
    /\ id <= Len(nodes)
    /\ call' = NodeCall("can_handle", id, d, CanHandle(nodes, id, d))
    /\ UNCHANGED <<nodes, adds, used>>

NextNode ==
    \/ \E id \in 1..MaxNodes, d \in NodeDigits :
          \E node_type \in {Exact(d), Repeatable(d)} : NodeAddWith(id, d, node_type)
    \/ \E id \in 1..MaxNodes, d \in NodeDigits : NodeCanHandle(id, d)

SpecNode == Init /\ [][NextNode]_vars

-----------------------------------------------------------------------------
(* The language of a pattern, from the grammar                             *)
(*   pattern := term*   term := DIGIT | '[' DIGIT+ ']' ['*' | '+']         *)
(* read off the pattern text without the compiler                          *)

\* the terms of a well-formed pattern from position i on: the digit
\* characters of the term, whether it is bracketed, and its quantifier
RECURSIVE TermsFrom(_, _)
TermsFrom(p, i) ==
    IF i > Len(p) THEN <<>>
    ELSE IF p[i] = "["
    THEN LET close == Min({j \in (i + 1)..Len(p) : p[j] = "]"})
             quant == IF close < Len(p) /\ p[close + 1] \in {"*", "+"}
                      THEN p[close + 1] ELSE ""
             next == IF quant = "" THEN close + 1 ELSE close + 2
         IN  <<[body |-> SubSeq(p, i + 1, close - 1), bracket |-> TRUE,
                quant |-> quant]>> \o TermsFrom(p, next)
    ELSE <<[body |-> <<p[i]>>, bracket |-> FALSE, quant |-> ""]>>
         \o TermsFrom(p, i + 1)

TermsOf(p) == TermsFrom(p, 1)

\* c repeated k times
Rep(c, k) == [i \in 1..k |-> c]

\* the strings of one term, up to MaxStrLen characters
TermLang(t) ==
    LET lo == IF t.quant = "*" THEN 0 ELSE 1
        hi == IF t.quant = "" THEN 1 ELSE MaxStrLen
    IN  {Rep(t.body[i], k) : i \in 1..Len(t.body), k \in lo..hi}

RECURSIVE LangOfTerms(_)
LangOfTerms(ts) ==
    IF ts = <<>> THEN {<<>>}
    ELSE LET rest == LangOfTerms(Tail(ts))
         IN  {w \in {a \o b : a \in TermLang(Head(ts)), b \in rest} :
                 Len(w) <= MaxStrLen}

\* L(p), cut at MaxStrLen characters
Lang(p) == LangOfTerms(TermsOf(p))

NoQuantifiers(p) == \A i \in 1..Len(p) : p[i] \notin {"*", "+"}

Compiles(p) == FromStr(p).ok

\* the latest call is an add that returned Ok
AddedOk == call.op = "add" /\ call.result = OkUnit

\* the latest call is the first add on the fresh map, no get since
FirstAdd == call.op = "add" /\ adds = 1

\* every digit string of at most MaxStrLen characters
DigitStrings == StringsUpTo(Digits123, MaxStrLen)

-----------------------------------------------------------------------------
(* C1: after a successful add of a quantifier-free pattern, in any state,  *)
(* every string choosing one alternative per bracket returns the value     *)

C1_RoundTrip ==
    (AddedOk /\ NoQuantifiers(call.input)) =>
        \A s \in Lang(call.input) : MapGet(nodes, s) = OkOption(call.value)

-----------------------------------------------------------------------------
(* C2: on a fresh map, after add of a quantifier-free pattern, a digit     *)
(* string returns the value exactly when it chooses one alternative per    *)
(* bracket, and None otherwise                                             *)

C2_PlainExact ==
    (FirstAdd /\ Compiles(call.input) /\ NoQuantifiers(call.input)) =>
        /\ call.result = OkUnit
        /\ \A s \in DigitStrings :
              MapGet(nodes, s) =
                 IF s \in Lang(call.input) THEN OkOption(call.value)
                                           ELSE OkOption(NoneVal)

C2_Witness ==
    /\ FirstAdd /\ NoQuantifiers(call.input)
    /\ Len(TermsOf(call.input)) = 2
    /\ \A i \in 1..2 : Len(TermsOf(call.input)[i].body) = 2
    /\ Cardinality(Lang(call.input)) = 4
    /\ \A s \in Lang(call.input) : MapGet(nodes, s) = OkOption(call.value)

-----------------------------------------------------------------------------
(* C3: an add that returned Ok returns Ok again when repeated at once with *)
(* the same pattern and value                                              *)

C3_Idempotent ==
    AddedOk => MapAdd(nodes, call.input, call.value).result = OkUnit

-----------------------------------------------------------------------------
(* C4: each variant walked by add is rejected at once, its terminal node   *)
(* keeping the old value, when that node holds a value different from v;   *)
(* otherwise it is accepted and the node holds v                           *)

C4_VariantOutcome ==
    (call.op = "add" /\ Compiles(call.input)) =>
        LET tr == call.trace
            n == Len(FromStr(call.input).tokens)
        IN  /\ Len(tr) >= 1 /\ Len(tr) <= n
            /\ \A k \in 1..Len(tr) :
                  IF tr[k].before # NoneVal /\ tr[k].before # call.value
                  THEN /\ k = Len(tr)
                       /\ call.result = PathAlreadyExists
                       /\ GetValue(nodes, tr[k].node) = tr[k].before
                  ELSE /\ GetValue(nodes, tr[k].node) = call.value
                       /\ k = Len(tr) => (call.result = OkUnit /\ k = n)

\* a conflict on a later variant, after an accepted one
C4_Witness ==
    /\ call.op = "add" /\ call.result = PathAlreadyExists
    /\ Len(call.trace) >= 2
    /\ call.trace[1].before = NoneVal
    /\ GetValue(nodes, call.trace[1].node) = call.value
    /\ GetValue(nodes, call.trace[Len(call.trace)].node) \notin {NoneVal, call.value}

-----------------------------------------------------------------------------
(* C5: on a fresh map, a second add whose pattern shares a string with the *)
(* first pattern, under a different value, returns PathAlreadyExists       *)

C5_OverlapRejected ==
    [][(/\ FirstAdd /\ Compiles(call.input)
        /\ call'.op = "add" /\ Compiles(call'.input)
        /\ call.value # call'.value
        /\ Lang(call.input) \cap Lang(call'.input) # {})
       => call'.result = PathAlreadyExists]_vars

-----------------------------------------------------------------------------
(* C6: on a fresh map, two adds of patterns with disjoint languages both   *)
(* return Ok, and every string of either language returns its own value    *)

C6_DisjointCoexist ==
    [][(/\ FirstAdd /\ Compiles(call.input)
        /\ call'.op = "add" /\ Compiles(call'.input)
        /\ Lang(call.input) \cap Lang(call'.input) = {})
       => /\ call.result = OkUnit
          /\ call'.result = OkUnit
          /\ \A s \in Lang(call.input) : MapGet(nodes', s) = OkOption(call.value)
          /\ \A s \in Lang(call'.input) : MapGet(nodes', s) = OkOption(call'.value)]_vars

-----------------------------------------------------------------------------
(* Patterns x[..]*y and x[..]+y: digit strings x and y around one          *)
(* quantified bracket                                                      *)

Brackets(ts) == {i \in 1..Len(ts) : ts[i].bracket}

\* the pattern is digits, one quantified bracket, digits
Affixed(p) ==
    /\ Compiles(p)
    /\ Cardinality(Brackets(TermsOf(p))) = 1
    /\ \A i \in Brackets(TermsOf(p)) : TermsOf(p)[i].quant # ""

QTerm(p) == LET ts == TermsOf(p) IN ts[CHOOSE i \in Brackets(ts) : TRUE]

PrefixOf(p) ==
    LET ts == TermsOf(p)
        q == CHOOSE i \in Brackets(ts) : TRUE
    IN  [j \in 1..(q - 1) |-> ts[j].body[1]]

SuffixOf(p) ==
    LET ts == TermsOf(p)
        q == CHOOSE i \in Brackets(ts) : TRUE
    IN  [j \in 1..(Len(ts) - q) |-> ts[q + j].body[1]]

\* the last digit of x and the first digit of y are not among the digits D
Apart(x, y, D) ==
    /\ x = <<>> \/ x[Len(x)] \notin D
    /\ y = <<>> \/ y[1] \notin D

-----------------------------------------------------------------------------
(* C7: on a fresh map after add(x[d]*y, v), with d different from the last *)
(* digit of x and the first digit of y, x d^k y returns v for k = 0 up to  *)
(* MaxReps                                                                 *)

C7_StarRepeats ==
    (FirstAdd /\ Affixed(call.input)) =>
        LET t == QTerm(call.input)
            x == PrefixOf(call.input)
            y == SuffixOf(call.input)
        IN  (t.quant = "*" /\ Len(t.body) = 1 /\ Apart(x, y, {t.body[1]})) =>
               /\ call.result = OkUnit
               /\ \A k \in 0..MaxReps :
                     MapGet(nodes, x \o Rep(t.body[1], k) \o y) = OkOption(call.value)

C7_Witness ==
    /\ FirstAdd /\ Affixed(call.input)
    /\ LET t == QTerm(call.input)
           x == PrefixOf(call.input)
           y == SuffixOf(call.input)
       IN  /\ t.quant = "*" /\ Len(t.body) = 1 /\ Apart(x, y, {t.body[1]})
           /\ Len(x) = MaxAffix /\ Len(y) = MaxAffix
           /\ MapGet(nodes, x \o y) = OkOption(call.value)
           /\ MapGet(nodes, x \o Rep(t.body[1], MaxReps) \o y) = OkOption(call.value)

-----------------------------------------------------------------------------
(* C8: on a fresh map after add(x[d]+y, v), with d different from the last *)
(* digit of x and the first digit of y, x d^k y returns v for k = 1 up to  *)
(* MaxReps and x y returns None                                            *)

C8_PlusRepeats ==
    (FirstAdd /\ Affixed(call.input)) =>
        LET t == QTerm(call.input)
            x == PrefixOf(call.input)
            y == SuffixOf(call.input)
        IN  (t.quant = "+" /\ Len(t.body) = 1 /\ Apart(x, y, {t.body[1]})) =>
               /\ call.result = OkUnit
               /\ \A k \in 1..MaxReps :
                     MapGet(nodes, x \o Rep(t.body[1], k) \o y) = OkOption(call.value)
               /\ MapGet(nodes, x \o y) = OkOption(NoneVal)

C8_Witness ==
    /\ FirstAdd /\ Affixed(call.input)
    /\ LET t == QTerm(call.input)
           x == PrefixOf(call.input)
           y == SuffixOf(call.input)
       IN  /\ t.quant = "+" /\ Len(t.body) = 1 /\ Apart(x, y, {t.body[1]})
           /\ Len(x) = MaxAffix /\ Len(y) = MaxAffix
           /\ MapGet(nodes, x \o y) = OkOption(NoneVal)
           /\ MapGet(nodes, x \o Rep(t.body[1], MaxReps) \o y) = OkOption(call.value)

-----------------------------------------------------------------------------
(* C9: on a fresh map after add(x[ab]*y, v) or add(x[ab]+y, v), a # b,     *)
(* neither next to an equal digit of x or y: x a^k y and x b^k y return v  *)
(* for k = 1 up to MaxReps, and x w y returns None for every w over {a, b} *)
(* that contains both                                                      *)

Mixes(a, b) ==
    {w \in StringsUpTo({a, b}, MaxReps) :
        (\E i \in 1..Len(w) : w[i] = a) /\ (\E i \in 1..Len(w) : w[i] = b)}

C9_OneDigitRepeats ==
    (FirstAdd /\ Affixed(call.input)) =>
        LET t == QTerm(call.input)
            x == PrefixOf(call.input)
            y == SuffixOf(call.input)
        IN  (/\ Len(t.body) = 2 /\ t.body[1] # t.body[2]
             /\ Apart(x, y, {t.body[1], t.body[2]})) =>
               /\ call.result = OkUnit
               /\ \A k \in 1..MaxReps, i \in 1..2 :
                     MapGet(nodes, x \o Rep(t.body[i], k) \o y) = OkOption(call.value)
               /\ \A w \in Mixes(t.body[1], t.body[2]) :
                     MapGet(nodes, x \o w \o y) = OkOption(NoneVal)

C9_Witness ==
    /\ FirstAdd /\ Affixed(call.input)
    /\ LET t == QTerm(call.input)
           x == PrefixOf(call.input)
           y == SuffixOf(call.input)
       IN  /\ Len(t.body) = 2 /\ t.body[1] # t.body[2]
           /\ Apart(x, y, {t.body[1], t.body[2]})
           /\ Len(x) >= 1 /\ Len(y) >= 1
           /\ MapGet(nodes, x \o Rep(t.body[2], MaxReps) \o y) = OkOption(call.value)
           /\ MapGet(nodes, x \o <<t.body[1], t.body[2]>> \o y) = OkOption(NoneVal)

-----------------------------------------------------------------------------
(* C10: on a fresh map, after add(p, v) returns Ok for any well-formed     *)
(* pattern, every string of L(p) returns v                                 *)

C10_Complete ==
    (FirstAdd /\ AddedOk) =>
        \A s \in Lang(call.input) : MapGet(nodes, s) = OkOption(call.value)

-----------------------------------------------------------------------------
(* C11: on a fresh map, after add(p, v) returns Ok for any well-formed     *)
(* pattern, every digit string outside L(p) returns None                   *)

C11_NoFalsePositive ==
    (FirstAdd /\ AddedOk) =>
        \A s \in DigitStrings \ Lang(call.input) :
            MapGet(nodes, s) = OkOption(NoneVal)

-----------------------------------------------------------------------------
(* Queries                                                                 *)

\* the positions of the non-digit characters of q
NonDigitAt(q) == {i \in 1..Len(q) : ToDigit(q[i]) < 0}

FirstNonDigit(q) == Min(NonDigitAt(q))

\* the node the walk of Map::get reaches over the digits s from current,
\* 0 when a transition fails
RECURSIVE WalkFrom(_, _, _, _)
WalkFrom(ns, current, s, i) ==
    IF i > Len(s) THEN current
    ELSE LET node == NodeGet(ns, current, ToDigit(s[i]))
         IN  IF node = 0 THEN 0 ELSE WalkFrom(ns, node, s, i + 1)

Walk(ns, s) == WalkFrom(ns, 1, s, 1)

-----------------------------------------------------------------------------
(* C12 as stated: in every state, get(q) of a query with a non-digit       *)
(* character returns InvalidDigit(c), c the first non-digit of q           *)

C12_InvalidDigit ==
    (call.op = "get" /\ NonDigitAt(call.input) # {}) =>
        call.result = MapInvalidDigit(call.input[FirstNonDigit(call.input)])

(* C12 amended: get(q) of a query with a non-digit character returns       *)
(* InvalidDigit(c), c the first non-digit of q, when every digit before c  *)
(* has a transition, and None when a transition fails before c is reached  *)

C12_InvalidDigitReached ==
    (call.op = "get" /\ NonDigitAt(call.input) # {}) =>
        LET j == FirstNonDigit(call.input) IN
        call.result = IF Walk(nodes, SubSeq(call.input, 1, j - 1)) # 0
                      THEN MapInvalidDigit(call.input[j])
                      ELSE OkOption(NoneVal)

\* a non-digit reported after a digit that was walked, with more behind it
C12_Witness ==
    /\ call.op = "get" /\ NonDigitAt(call.input) # {}
    /\ FirstNonDigit(call.input) = 2 /\ Len(call.input) = 3
    /\ Walk(nodes, <<call.input[1]>>) # 0
    /\ call.result = MapInvalidDigit(call.input[2])

-----------------------------------------------------------------------------
(* C13: in every state, get(q) of a query made only of digits returns no   *)
(* error: Ok(None) when a transition of the walk fails, and otherwise Ok   *)
(* of the stored value of the node reached after the last character        *)

C13_DigitsNeverFail ==
    (call.op = "get" /\ NonDigitAt(call.input) = {}) =>
        LET end == Walk(nodes, call.input) IN
        /\ call.result.tag = "Ok"
        /\ call.result = IF end = 0 THEN OkOption(NoneVal)
                         ELSE OkOption(GetValue(nodes, end))

\* a stored value found at the end of a walk of two digits or more
C13_Witness ==
    /\ call.op = "get" /\ NonDigitAt(call.input) = {}
    /\ Len(call.input) >= 2
    /\ Walk(nodes, call.input) # 0
    /\ call.result.tag = "Ok" /\ call.result.val # NoneVal

-----------------------------------------------------------------------------
(* C14: add of a pattern that does not compile returns TokenizeError(e), e *)
(* being the error the compiler returns for the pattern, one of            *)
(* InvalidDigit(c), MissingClosingBracket, UnexpectedChar(c) and           *)
(* UnexpectedEmptyRange                                                    *)

C14_CompileErrorWrapped ==
    (call.op = "add" /\ ~Compiles(call.input)) =>
        /\ call.result = TokenizeError(FromStr(call.input).err)
        /\ call.result.err.tag \in {"InvalidDigit", "MissingClosingBracket",
                                     "UnexpectedChar", "UnexpectedEmptyRange"}

\* the compiler's InvalidDigit of a bracket, wrapped by add
C14_Witness ==
    /\ call.op = "add" /\ ~Compiles(call.input)
    /\ Len(call.input) = MaxTextBad
    /\ call.input[1] = "["
    /\ call.result = TokenizeError(TokInvalidDigit("a"))

-----------------------------------------------------------------------------
(* Trees that grow                                                         *)

IsPrefix(a, b) == Len(a) <= Len(b) /\ SubSeq(b, 1, Len(a)) = a

\* the node type is kept, or upgraded from Exact to Repeatable
KeptOrUpgraded(t, u) == u = t \/ (t.tag = "Exact" /\ u = Repeatable(t.digit))

\* every node and child of old is in new, with its value
Persists(old, new) ==
    /\ Len(old) <= Len(new)
    /\ \A id \in 1..Len(old) :
          /\ IsPrefix(old[id].children, new[id].children)
          /\ KeptOrUpgraded(old[id].node_type, new[id].node_type)
          /\ new[id].value = old[id].value

-----------------------------------------------------------------------------
(* C15: when add(p, v) returns PathAlreadyExists on its k-th variant, the  *)
(* tree is the one variants 1..k-1 built (their nodes, upgrades and values *)
(* are all there), and each of their terminal nodes holds v                *)

C15_NotRolledBack ==
    [][(call'.op = "add" /\ call'.result = PathAlreadyExists) =>
          LET k == Len(call'.trace)
              tokens_list == FromStr(call'.input).tokens
              done == AddLoop(nodes, SubSeq(tokens_list, 1, k - 1), 1,
                              call'.value, <<>>)
          IN  /\ done.result = OkUnit
              /\ Persists(done.nodes, nodes')
              /\ \A j \in 1..(k - 1) :
                    GetValue(nodes', call'.trace[j].node) = call'.value]_vars

\* a rejection on the third variant, the first two having set v on nodes
\* that held no value
C15_Witness ==
    /\ call.op = "add" /\ call.result = PathAlreadyExists
    /\ Len(call.trace) = 3
    /\ \A j \in 1..2 : /\ call.trace[j].before = NoneVal
                       /\ GetValue(nodes, call.trace[j].node) = call.value
    /\ call.trace[1].node # call.trace[2].node

-----------------------------------------------------------------------------
(* C16: on a fresh map get("") returns None; after add(p, v) of the empty  *)
(* pattern, or of a pattern whose terms are all starred, in a state where  *)
(* the root held no value or v, get("") returns v, and the add of the      *)
(* empty pattern returned Ok                                               *)

\* the pattern compiles and every term of it is a starred bracket
AllStarred(p) ==
    Compiles(p) /\ \A i \in 1..Len(TermsOf(p)) : TermsOf(p)[i].quant = "*"

C16_EmptyOnRoot ==
    /\ adds = 0 => MapGet(nodes, <<>>) = OkOption(NoneVal)
    /\ (call.op = "add" /\ AllStarred(call.input)) =>
          /\ FromStr(call.input).tokens[1] = <<>>
          /\ call.trace[1].node = 1
          /\ call.trace[1].before \in {NoneVal, call.value} =>
                /\ MapGet(nodes, <<>>) = OkOption(call.value)
                /\ call.input = <<>> => call.result = OkUnit

\* a starred bracket alone, added when the root held the same value
C16_Witness ==
    /\ call.op = "add" /\ AllStarred(call.input)
    /\ Len(call.input) = 4
    /\ call.trace[1].node = 1 /\ call.trace[1].before = call.value
    /\ call.result = OkUnit
    /\ MapGet(nodes, <<>>) = OkOption(call.value)

-----------------------------------------------------------------------------
(* The compiler on a text                                                  *)

\* the latest call is the compiler alone
Compiled == call.op = "from_str"

\* Token(d, kind) for a digit character
TokenOf(c, kind) == [digit |-> ToDigit(c), kind |-> kind]

-----------------------------------------------------------------------------
(* C17: a pattern of n >= 0 plain digits compiles to exactly one sequence, *)
(* of n Single tokens with the digits of the pattern in order; the empty   *)
(* pattern compiles to one empty sequence                                  *)

C17_PlainDigits ==
    (Compiled /\ NonDigitAt(call.input) = {}) =>
        /\ call.result.ok
        /\ call.result.tokens =
              <<[i \in 1..Len(call.input) |-> TokenOf(call.input[i], "Single")]>>

C17_Witness ==
    /\ Compiled /\ NonDigitAt(call.input) = {}
    /\ Len(call.input) = MaxTextLen
    /\ \E i \in 1..Len(call.input) : call.input[i] # call.input[1]
    /\ Len(call.result.tokens) = 1
    /\ Len(call.result.tokens[1]) = MaxTextLen

-----------------------------------------------------------------------------
(* The last term of a compiled text and the text before it                 *)

LastTerm(p) == TermsOf(p)[Len(TermsOf(p))]

\* the number of characters of a term
TermLen(t) ==
    IF ~t.bracket THEN 1
    ELSE Len(t.body) + 2 + (IF t.quant = "" THEN 0 ELSE 1)

Before(p) == SubSeq(p, 1, Len(p) - TermLen(LastTerm(p)))

\* the compiler alone returned Ok for a text that ends with a bracket
\* of quantifier q ("" for none)
CompiledBracket(q) ==
    /\ Compiled /\ call.result.ok
    /\ call.input # <<>>
    /\ LastTerm(call.input).bracket
    /\ LastTerm(call.input).quant = q

-----------------------------------------------------------------------------
(* C18: a plain bracket [d1..dn] turns the sequences compiled so far into  *)
(* old_size * n sequences: for each old sequence in order and each di in   *)
(* bracket order, the old sequence followed by Token(di, Single); no old   *)
(* sequence is kept unextended                                             *)

C18_BracketMultiplies ==
    CompiledBracket("") =>
        LET old == FromStr(Before(call.input)).tokens
            b == LastTerm(call.input).body
            n == Len(b)
            new == call.result.tokens
        IN  /\ Len(new) = Len(old) * n
            /\ \A a \in 1..Len(old), i \in 1..n :
                  new[(a - 1) * n + i] = Append(old[a], TokenOf(b[i], "Single"))

\* two old sequences and a bracket of two different digits
C18_Witness ==
    /\ CompiledBracket("")
    /\ Len(FromStr(Before(call.input)).tokens) = 2
    /\ Len(LastTerm(call.input).body) = 2
    /\ LastTerm(call.input).body[1] # LastTerm(call.input).body[2]
    /\ Len(call.result.tokens) = 4

-----------------------------------------------------------------------------
(* C19: a starred bracket [d1..dn]* turns the sequences compiled so far    *)
(* into old_size * (n + 1) sequences: first the old sequences unchanged,   *)
(* in order, then for each old sequence and each di the old sequence       *)
(* followed by Token(di, AtLeastOne); the bracket gives no Single token    *)

C19_StarKeepsOld ==
    CompiledBracket("*") =>
        LET old == FromStr(Before(call.input)).tokens
            b == LastTerm(call.input).body
            n == Len(b)
            new == call.result.tokens
        IN  /\ Len(new) = Len(old) * (n + 1)
            /\ \A a \in 1..Len(old) : new[a] = old[a]
            /\ \A a \in 1..Len(old), i \in 1..n :
                  new[Len(old) + (a - 1) * n + i] =
                     Append(old[a], TokenOf(b[i], "AtLeastOne"))

\* two different old sequences and a starred bracket
C19_Witness ==
    /\ CompiledBracket("*")
    /\ LET old == FromStr(Before(call.input)).tokens
       IN  /\ Len(old) = 2 /\ old[1] # old[2]
           /\ Len(call.result.tokens) = 2 * (Len(LastTerm(call.input).body) + 1)
           /\ call.result.tokens[2] = old[2]
           /\ call.result.tokens[3] # call.result.tokens[4]

-----------------------------------------------------------------------------
(* C20: a plussed bracket [d1..dn]+ turns the sequences compiled so far    *)
(* into old_size * n * 2 sequences: for each old sequence and each di, the *)
(* old sequence followed by Token(di, Single) and then the old sequence    *)
(* followed by Token(di, AtLeastOne); no old sequence is kept unextended   *)

C20_PlusPairs ==
    CompiledBracket("+") =>
        LET old == FromStr(Before(call.input)).tokens
            b == LastTerm(call.input).body
            n == Len(b)
            new == call.result.tokens
        IN  /\ Len(new) = Len(old) * n * 2
            /\ \A a \in 1..Len(old), i \in 1..n :
                  LET k == ((a - 1) * n + (i - 1)) * 2 IN
                  /\ new[k + 1] = Append(old[a], TokenOf(b[i], "Single"))
                  /\ new[k + 2] = Append(old[a], TokenOf(b[i], "AtLeastOne"))

\* two different old sequences and a plussed bracket
C20_Witness ==
    /\ CompiledBracket("+")
    /\ LET old == FromStr(Before(call.input)).tokens
       IN  /\ Len(old) = 2 /\ old[1] # old[2]
           /\ Len(call.result.tokens) = 4 * Len(LastTerm(call.input).body)
           /\ call.result.tokens[1] # call.result.tokens[2]
           /\ Len(call.result.tokens[4]) = Len(old[2]) + 1

-----------------------------------------------------------------------------
(* C21: a pattern that compiles yields as many sequences as the product    *)
(* over its terms of 1 for a digit, n for a plain bracket of n digits,     *)
(* n + 1 for a starred one and 2n for a plussed one, repeated digits of a  *)
(* bracket counted separately                                              *)

\* the number of sequences one term multiplies by
TermFactor(t) ==
    IF ~t.bracket THEN 1
    ELSE IF t.quant = "" THEN Len(t.body)
    ELSE IF t.quant = "*" THEN Len(t.body) + 1
    ELSE 2 * Len(t.body)

RECURSIVE TermProduct(_)
TermProduct(ts) ==
    IF ts = <<>> THEN 1 ELSE TermFactor(Head(ts)) * TermProduct(Tail(ts))

C21_NoDedup ==
    (Compiled /\ call.result.ok) =>
        Len(call.result.tokens) = TermProduct(TermsOf(call.input))

\* a bracket with a repeated digit, giving the same sequence twice
C21_Witness ==
    /\ Compiled /\ call.result.ok
    /\ Len(TermsOf(call.input)) >= 2
    /\ \E i \in 1..Len(TermsOf(call.input)) :
          LET t == TermsOf(call.input)[i]
          IN  t.bracket /\ Len(t.body) = 2 /\ t.body[1] = t.body[2]
    /\ \E i, j \in 1..Len(call.result.tokens) :
          i # j /\ call.result.tokens[i] = call.result.tokens[j]
    /\ Len(call.result.tokens) = TermProduct(TermsOf(call.input))

-----------------------------------------------------------------------------
(* C22: outside brackets, the first character that is neither a digit nor  *)
(* '[', everything before it compiling, makes the compiler fail with       *)
(* UnexpectedChar of that character; '*' and '+' count unless they come    *)
(* right after a closing bracket, and so does a stray ']'                  *)

\* the positions of p whose character is illegal outside brackets, the
\* text before it compiling
OutsideBad(p) ==
    {i \in 1..Len(p) :
        /\ Compiles(SubSeq(p, 1, i - 1))
        /\ ToDigit(p[i]) < 0 /\ p[i] # "["
        /\ ~(p[i] \in {"*", "+"} /\ i > 1 /\ p[i - 1] = "]")}

C22_UnexpectedChar ==
    Compiled =>
        \A i \in OutsideBad(call.input) :
            call.result = [ok |-> FALSE, tokens |-> <<>>,
                           err |-> UnexpectedChar(call.input[i])]

\* a second quantifier after one was consumed, with more text behind it
C22_Witness ==
    /\ Compiled
    /\ \E i \in OutsideBad(call.input) :
          /\ 1 < i /\ i < Len(call.input)
          /\ call.input[i - 1] \in {"*", "+"}
          /\ call.input[i] \in {"*", "+"}
          /\ call.result.err = UnexpectedChar(call.input[i])

-----------------------------------------------------------------------------
(* Brackets opened outside brackets                                        *)

\* the positions of p holding a '[' met outside brackets: the text before
\* it compiles
Opens(p) == {o \in 1..Len(p) : p[o] = "[" /\ Compiles(SubSeq(p, 1, o - 1))}

\* the characters of p from a to b are digits
AllDigits(p, a, b) == \A k \in a..b : ToDigit(p[k]) >= 0

-----------------------------------------------------------------------------
(* C23: inside an open bracket, the first character that is neither a      *)
(* digit nor ']' makes the compiler fail with InvalidDigit of that         *)
(* character, whether or not a ']' follows and whether or not digits were  *)
(* read before it                                                          *)

\* the positions of p whose character is illegal inside the bracket that
\* is open there
InsideBad(p) ==
    {i \in 1..Len(p) :
        /\ ToDigit(p[i]) < 0 /\ p[i] # "]"
        /\ \E o \in Opens(p) : o < i /\ AllDigits(p, o + 1, i - 1)}

C23_InvalidDigitInside ==
    Compiled =>
        \A i \in InsideBad(call.input) :
            call.result = [ok |-> FALSE, tokens |-> <<>>,
                           err |-> TokInvalidDigit(call.input[i])]

\* no digit read, a ']' right behind the character, a pattern in front
C23_Witness ==
    /\ Compiled
    /\ \E i \in InsideBad(call.input) :
          /\ 2 < i /\ i < Len(call.input)
          /\ call.input[i - 1] = "[" /\ call.input[i + 1] = "]"
          /\ call.result.err = TokInvalidDigit(call.input[i])

-----------------------------------------------------------------------------
(* C24: a '[' followed by digits only, none included, up to the end of the *)
(* text makes the compiler fail with MissingClosingBracket                 *)

\* the brackets of p left open at the end of the text, digits only inside
Unclosed(p) == {o \in Opens(p) : AllDigits(p, o + 1, Len(p))}

C24_MissingClosingBracket ==
    (Compiled /\ Unclosed(call.input) # {}) =>
        call.result = [ok |-> FALSE, tokens |-> <<>>,
                       err |-> MissingClosingBracket]

\* a '[' as the last character, behind a pattern
C24_Witness ==
    /\ Compiled
    /\ Len(call.input) > 1
    /\ Len(call.input) \in Unclosed(call.input)
    /\ call.result.err = MissingClosingBracket

-----------------------------------------------------------------------------
(* C25: a bracket closed with no digit inside, behind a text that          *)
(* compiles, with or without a quantifier after it, makes the compiler     *)
(* fail with UnexpectedEmptyRange, and no sequences are returned           *)

\* the brackets of p closed at once
EmptyBrackets(p) == {o \in Opens(p) : o < Len(p) /\ p[o + 1] = "]"}

C25_EmptyRange ==
    (Compiled /\ EmptyBrackets(call.input) # {}) =>
        call.result = [ok |-> FALSE, tokens |-> <<>>,
                       err |-> UnexpectedEmptyRange]

\* an empty bracket with a quantifier, behind a pattern
C25_Witness ==
    /\ Compiled
    /\ \E o \in EmptyBrackets(call.input) :
          /\ o > 1 /\ o + 2 <= Len(call.input)
          /\ call.input[o + 2] \in {"*", "+"}
    /\ call.result.err = UnexpectedEmptyRange
    /\ call.result.tokens = <<>>

-----------------------------------------------------------------------------
(* C26: a value stored on a node stays on it: no add, accepted or          *)
(* rejected, and no get replaces a stored value by another one or takes    *)
(* it away                                                                 *)

C26_WriteOnce ==
    [][\A id \in 1..Len(nodes) :
          nodes[id].value # NoneVal =>
              /\ id <= Len(nodes')
              /\ nodes'[id].value = nodes[id].value]_vars

\* a second add with another value rejected on a node that keeps its value
C26_Witness ==
    /\ call.op = "add" /\ adds = 2
    /\ call.result = PathAlreadyExists
    /\ LET last == call.trace[Len(call.trace)]
       IN  /\ last.before \notin {NoneVal, call.value}
           /\ GetValue(nodes, last.node) = last.before

-----------------------------------------------------------------------------
(* C27: node types are monotone over add and get: the root stays Root, an  *)
(* Exact(d) node stays Exact(d) or becomes Repeatable(d), a Repeatable(d)  *)
(* node stays Repeatable(d)                                                *)

C27_KindsMonotone ==
    [][\A id \in 1..Len(nodes) :
          /\ id <= Len(nodes')
          /\ KeptOrUpgraded(nodes[id].node_type, nodes'[id].node_type)]_vars

\* the tree of a plain digit after an add that upgraded the digit's node
C27_Witness ==
    /\ call.op = "add" /\ adds = 2
    /\ \E d \in {"1", "2"}, v \in Values :
          LET old == MapAdd(MapDefault, <<d>>, v).nodes
          IN  /\ nodes = MapAdd(old, call.input, call.value).nodes
              /\ old[2].node_type = Exact(ToDigit(d))
              /\ nodes[2].node_type = Repeatable(ToDigit(d))
              /\ nodes[1].node_type = RootType

-----------------------------------------------------------------------------
(* C28: no node has two children whose own types carry the same digit      *)

\* the children of node id whose own type carries digit d
ChildrenOn(ns, id, d) ==
    {i \in 1..Len(ns[id].children) : ns[ns[id].children[i]].node_type.digit = d}

C28_SiblingDigitsUnique ==
    \A id \in 1..Len(nodes) :
        \A d \in 0..9 : Cardinality(ChildrenOn(nodes, id, d)) <= 1

\* a second add that has found the child of its digit among two siblings
C28_Witness ==
    /\ call.op = "add" /\ adds = 2 /\ call.result = OkUnit
    /\ Len(nodes[1].children) >= 2
    /\ \E p \in PatternsWithin[MaxChars], v \in Values :
          LET old == MapAdd(MapDefault, p, v).nodes
          IN  /\ Len(old[1].children) >= 2
              /\ nodes = MapAdd(old, call.input, call.value).nodes
              /\ Len(call.input) >= 1
              /\ Len(nodes[1].children) = Len(old[1].children)

-----------------------------------------------------------------------------
(* C29: the tree only grows: every step keeps every node, each at its      *)
(* place under the same parent, new children come after the old ones, and  *)
(* get leaves the tree as it is                                            *)

\* the children of node id in new that it did not have in old
Gained(old, new, id) ==
    LET had == IF id <= Len(old) THEN Len(old[id].children) ELSE 0
    IN  {new[id].children[i] : i \in (had + 1)..Len(new[id].children)}

C29_TreeOnlyGrows ==
    [][/\ Len(nodes) <= Len(nodes')
       /\ \A id \in 1..Len(nodes) :
             IsPrefix(nodes[id].children, nodes'[id].children)
       /\ \A id \in 1..Len(nodes') :
             \A c \in Gained(nodes, nodes', id) : c > Len(nodes)
       /\ call'.op = "get" => nodes' = nodes]_vars

\* a second add that has put a new child behind the one the root had
C29_Witness ==
    /\ call.op = "add" /\ adds = 2
    /\ \E p \in PatternsWithin[MaxChars], v \in Values :
          LET old == MapAdd(MapDefault, p, v).nodes
          IN  /\ Len(old[1].children) = 1
              /\ nodes = MapAdd(old, call.input, call.value).nodes
              /\ Len(nodes[1].children) = 2
              /\ nodes[1].children[1] = old[1].children[1]
              /\ nodes[1].children[2] > Len(old)

-----------------------------------------------------------------------------
(* C30: add_with(d, kind) on a Repeatable(d) node, kind Exact or           *)
(* Repeatable, returns the node itself and leaves the tree as it is: no    *)
(* child is created, and type, children and value are kept                 *)

C30_SelfLoop ==
    \A id \in 1..Len(nodes) :
        nodes[id].node_type.tag = "Repeatable" =>
            LET d == nodes[id].node_type.digit IN
            \A kind \in {Exact(d), Repeatable(d)} :
                AddWith(nodes, id, d, kind) = [nodes |-> nodes, node |-> id]

\* an add one variant of which, two tokens of one digit, has ended on the
\* Repeatable child of the root, the only node the add created
C30_Witness ==
    /\ call.op = "add" /\ adds = 1 /\ call.result = OkUnit
    /\ Len(nodes) = 2
    /\ nodes[2].node_type.tag = "Repeatable"
    /\ \E k \in 1..Len(call.trace) :
          LET tokens == FromStr(call.input).tokens[k]
          IN  /\ Len(tokens) = 2
              /\ tokens[1].digit = tokens[2].digit
              /\ call.trace[k].node = 2

-----------------------------------------------------------------------------
(* C31: add_if_missing(d, Repeatable) that finds an Exact(d) child retags  *)
(* that child Repeatable(d) and changes nothing else (no new child, its    *)
(* children and value kept); add_if_missing(d, Exact) on a node that has a *)
(* child Exact(d) or Repeatable(d) returns that child and changes nothing  *)

C31_UpgradeInPlace ==
    \A id \in 1..Len(nodes) :
        \A i \in 1..Len(nodes[id].children) :
            LET c == nodes[id].children[i]
                d == nodes[c].node_type.digit
                up == AddIfMissing(nodes, id, d, Repeatable(d))
                same == AddIfMissing(nodes, id, d, Exact(d))
            IN  /\ (nodes[c].node_type.tag = "Exact"
                        /\ CanHandleIndex(nodes, id, d) = i) =>
                       /\ up.node = c
                       /\ up.nodes = [nodes EXCEPT ![c].node_type = Repeatable(d)]
                /\ same.node = c
                /\ same.nodes = nodes

-----------------------------------------------------------------------------
(* C33: get(d) on a Repeatable(d) node of a tree built by add returns the  *)
(* node itself                                                             *)

C33_GetLoops ==
    \A id \in 1..Len(nodes) :
        nodes[id].node_type.tag = "Repeatable" =>
            NodeGet(nodes, id, nodes[id].node_type.digit) = id

-----------------------------------------------------------------------------
(* C34: a string for which get returns Some(v) returns Some(v) after every *)
(* later add, whatever its pattern, its value and its result               *)

C34_ResultsPersist ==
    [][call'.op = "add" =>
          \A s \in DigitStrings :
              MapGet(nodes, s).val # NoneVal =>
                  MapGet(nodes', s) = MapGet(nodes, s)]_vars

-----------------------------------------------------------------------------
(* C35: when add(p, v) returns Ok, get(s) returns after the call what it   *)
(* returned before it for every digit string s outside L(p)                *)

C35_OnlyOwnLanguage ==
    [][(call'.op = "add" /\ call'.result = OkUnit) =>
          \A s \in DigitStrings \ Lang(call'.input) :
              MapGet(nodes', s) = MapGet(nodes, s)]_vars

-----------------------------------------------------------------------------
(* C36: on a fresh map, add(p1, v1); add(p2, v2) and add(p2, v2);          *)
(* add(p1, v1) either return Ok in both calls of both orders, every get    *)
(* returning the same in the two maps, or return PathAlreadyExists on the  *)
(* second call of both orders                                              *)

C36_OrderIrrelevant ==
    [][(/\ FirstAdd /\ Compiles(call.input)
        /\ call'.op = "add" /\ Compiles(call'.input))
       => LET first == MapAdd(MapDefault, call'.input, call'.value)
              second == MapAdd(first.nodes, call.input, call.value)
          IN  \/ /\ call.result = OkUnit /\ call'.result = OkUnit
                 /\ first.result = OkUnit /\ second.result = OkUnit
                 /\ \A s \in DigitStrings :
                       MapGet(nodes', s) = MapGet(second.nodes, s)
              \/ /\ call.result = OkUnit /\ first.result = OkUnit
                 /\ call'.result = PathAlreadyExists
                 /\ second.result = PathAlreadyExists]_vars

-----------------------------------------------------------------------------
(* C37: an add that returns Err(TokenizeError) leaves the tree as it was:  *)
(* the same nodes, types, children in the same order, and values           *)

C37_CompileErrorNoChange ==
    [][(call'.op = "add" /\ call'.result.tag = "TokenizeError") =>
          nodes' = nodes]_vars

\* a pattern that does not compile, given to a map that holds a pattern
C37_Witness ==
    /\ call.op = "add" /\ call.result.tag = "TokenizeError"
    /\ adds >= 2
    /\ Len(nodes) >= 3
    /\ \E id \in 2..Len(nodes) : nodes[id].value \notin {NoneVal, call.value}

-----------------------------------------------------------------------------
(* The can-handle probe                                                    *)

\* the children of the nodes of S
ChildrenOf(ns, S) == UNION {{ns[id].children[i] : i \in 1..Len(ns[id].children)} : id \in S}

\* S grown by the children of its Repeatable nodes, until nothing is added
RECURSIVE ThroughRepeatable(_, _)
ThroughRepeatable(ns, S) ==
    LET more == S \cup ChildrenOf(ns, {c \in S : ns[c].node_type.tag = "Repeatable"})
    IN  IF more = S THEN S ELSE ThroughRepeatable(ns, more)

\* the nodes below id with Repeatable nodes only between id and them
Probed(ns, id) == ThroughRepeatable(ns, ChildrenOf(ns, {id}))

\* the latest call is can_handle(x) on a Repeatable(d) node, x # d
ProbeAsked ==
    /\ call.op = "can_handle"
    /\ nodes[call.node].node_type.tag = "Repeatable"
    /\ nodes[call.node].node_type.digit # call.digit

-----------------------------------------------------------------------------
(* C32, as claimed: a Repeatable(d) node can handle a digit x # d only     *)
(* when one of its direct children is tagged with x; a digit claimed only  *)
(* deeper does not count                                                   *)

C32_ProbeOneLevel ==
    ProbeAsked =>
        (call.out <=> \E c \in ChildrenOf(nodes, {call.node}) :
                         nodes[c].node_type.digit = call.digit)

(* C32, as the code has it: a Repeatable(d) node can handle a digit x # d  *)
(* exactly when a node tagged with x is found below it with Repeatable     *)
(* nodes only in between: a direct child, or a node under a chain of       *)
(* Repeatable children; nothing below an Exact child counts                *)

C32_ProbeThroughRepeatable ==
    ProbeAsked =>
        (call.out <=> \E c \in Probed(nodes, call.node) :
                         nodes[c].node_type.digit = call.digit)

\* a digit handled through a grandchild, no direct child being tagged
\* with it
C32_Witness ==
    /\ ProbeAsked
    /\ call.out
    /\ \A c \in ChildrenOf(nodes, {call.node}) :
          nodes[c].node_type.digit # call.digit
    /\ \E c \in ChildrenOf(nodes, {call.node}) :
          \E g \in ChildrenOf(nodes, {c}) :
              nodes[g].node_type.digit = call.digit

====
